---- MODULE Spec2Model ----
(***************************************************************************)
(* RT backend: the Language cog (cogs/language.py) and the Componesy view  *)
(* builder (rtlib/ext/componesy.py).                                       *)
(*                                                                         *)
(* Text is modelled as a sequence of one-character strings, so that the    *)
(* character scan of _extract_question and str.replace are computed, not   *)
(* assumed.                                                                *)
(***************************************************************************)
EXTENDS Integers, Sequences, FiniteSets, TLC

VARIABLES
    \* ---- Language cog ----
    cache,      \* Language.cache : subject id -> language code
    replies,    \* Language.replies : phrase -> (language code -> phrase)
    ready,      \* on_ready has run (self.db and self.replies exist)
    db,         \* rows of the persisted table "language", in storage order
    pc,         \* position of each `language` command invocation
    cmd,        \* locals of each `language` command invocation
    ncmds,      \* number of `language` invocations started so far
    sent,       \* the last call seen by Language._new_send, and its result
    text,       \* the text handed to _get_reply
    reply,      \* the locals and result of the last _get_reply call
    \* ---- Componesy ----
    view,       \* the componesy.View object under construction by a command
    views,      \* Componesy.views : view_name -> synthesized class
    nclasses,   \* number of classes synthesized by type(...)
    ninst,      \* number of class instances created
    vsent,      \* the last call seen by Componesy._new_send, and its result
    rm          \* the last View.remove_item call, and its result

vars == <<cache, replies, ready, db, pc, cmd, ncmds, sent, text, reply,
          view, views, nclasses, ninst, vsent, rm>>

langVars == <<cache, replies, ready, db, pc, cmd, ncmds, sent, text, reply>>
viewVars == <<view, views, nclasses, ninst, vsent, rm>>

None == "None"

\* The value of a call record before any call was made.
NoCall == [called |-> FALSE]

(***************************************************************************)
(* Bounds                                                                  *)
(***************************************************************************)
MaxLen == 5      \* longest text handed to _get_reply
MaxKey == 4      \* longest phrase key in a drawn replies table
MaxTr == 4       \* longest translated phrase in a drawn replies table
MaxArgs == 2     \* most positional arguments of an intercepted send
NumProcs == 2    \* `language` command invocations that can be in progress
MaxCmds == 3     \* `language` command invocations in a behaviour
MaxItems == 2    \* most items of a componesy.View
MaxSends == 3    \* intercepted sends that carry a view, in a behaviour

(***************************************************************************)
(* Text                                                                    *)
(***************************************************************************)
LANGUAGES == {"ja", "en"}

Alphabet == {"a", "$"}

StringsUpTo(n) == UNION {[1..k -> Alphabet] : k \in 0..n}

EmptyTable == [k \in {} |-> None]

\* str.replace(old, new, 1) with old = "$$": the first occurrence only.
FirstToken(s) ==
    LET hits == {i \in 1..(Len(s) - 1) : s[i] = "$" /\ s[i + 1] = "$"}
    IN  IF hits = {} THEN 0 ELSE CHOOSE i \in hits : \A j \in hits : i <= j

\* str.replace(old, new) without the count: every occurrence, left to right.
RECURSIVE ReplaceEvery(_, _)
ReplaceEvery(s, word) ==
    IF Len(s) < 2 THEN s
    ELSE IF s[1] = "$" /\ s[2] = "$"
         THEN word \o ReplaceEvery(SubSeq(s, 3, Len(s)), word)
         ELSE <<s[1]>> \o ReplaceEvery(Tail(s), word)

ReplaceFirst(s, word) ==
    LET i == FirstToken(s)
    IN  IF i = 0 THEN s
        ELSE SubSeq(s, 1, i - 1) \o word \o SubSeq(s, i + 2, Len(s))

\* The character loop of _extract_question, from position i on.
RECURSIVE ExtractLoop(_, _, _, _, _, _)
ExtractLoop(s, i, now, now_target, results, other) ==
    IF i > Len(s) THEN [results |-> results, other |-> other]
    ELSE
        LET char     == s[i]
            isMark   == char = "$"
            closing  == isMark /\ now_target
            results1 == IF closing THEN Append(results, now) ELSE results
            now1     == IF closing THEN <<>> ELSE now
            target1  == IF isMark THEN ~now_target ELSE now_target
            inside   == target1 /\ ~isMark
        IN  ExtractLoop(s, i + 1,
                        IF inside THEN Append(now1, char) ELSE now1,
                        target1,
                        results1,
                        IF inside THEN other ELSE Append(other, char))

_extract_question(s) == ExtractLoop(s, 1, <<>>, FALSE, <<>>, <<>>)

\* The lookup with an empty string as the default of the inner get.
LookupEmptyDefault(table, phrase, lang) ==
    IF phrase \in DOMAIN table /\ lang \in DOMAIN table[phrase]
    THEN table[phrase][lang]
    ELSE <<>>

\* self.replies.get(text, {}).get(lang, text)
Lookup(table, phrase, lang) ==
    IF phrase \in DOMAIN table
    THEN IF lang \in DOMAIN table[phrase] THEN table[phrase][lang] ELSE phrase
    ELSE phrase

\* for word in results: result = result.replace("$$", word, 1)
RECURSIVE ReplaceLoop(_, _)
ReplaceLoop(result, results) ==
    IF results = <<>> THEN result
    ELSE ReplaceLoop(ReplaceFirst(result, Head(results)), Tail(results))

GetReplyLocals(table, s, lang) ==
    LET ex     == _extract_question(s)
        result == Lookup(table, ex.other, lang)
    IN  [called  |-> TRUE,
         text    |-> s,
         lang    |-> lang,
         results |-> ex.results,
         other   |-> ex.other,
         result  |-> result,
         out     |-> ReplaceLoop(result, ex.results)]

_get_reply(table, s, lang) == GetReplyLocals(table, s, lang).out

(***************************************************************************)
(* The placeholder codec as a function of its inputs: a text and a loaded  *)
(* replies table are drawn, and _get_reply is applied.                     *)
(***************************************************************************)
Texts == StringsUpTo(MaxLen)

\* Phrases that can be the lookup key of some text: _extract_question
\* leaves them as they are.
Keys == {k \in StringsUpTo(MaxKey) : _extract_question(k).other = k}

Tables ==
    {EmptyTable} \cup
    {k :> (l :> t) : k \in Keys, l \in LANGUAGES, t \in StringsUpTo(MaxTr)}

Procs == 1..NumProcs

LangIdle ==
    /\ cache = EmptyTable
    /\ db = <<>>
    /\ pc = [p \in Procs |-> "idle"]
    /\ cmd = [p \in Procs |-> NoCall]
    /\ ncmds = 0
    /\ sent = NoCall

ViewIdle ==
    /\ view = NoCall
    /\ views = EmptyTable
    /\ nclasses = 0
    /\ ninst = 0
    /\ vsent = NoCall
    /\ rm = NoCall

InitCodec ==
    /\ LangIdle
    /\ ViewIdle
    /\ ready = TRUE
    /\ replies \in Tables
    /\ text \in Texts
    /\ reply = NoCall

GetReply(lang) ==
    /\ ready
    /\ reply' = GetReplyLocals(replies, text, lang)
    /\ UNCHANGED <<cache, replies, ready, db, pc, cmd, ncmds, sent, text>>
    /\ UNCHANGED viewVars

NextCodec == \E lang \in LANGUAGES : GetReply(lang)

SpecCodec == InitCodec /\ [][NextCodec]_vars

(***************************************************************************)
(* Placeholder codec: claims C2 and C3                                     *)
(***************************************************************************)
IsMark(c) == c = "$"
NotMark(c) == c # "$"

Marks(s) == Len(SelectSeq(s, IsMark))

LastMark(s) == CHOOSE i \in 1..Len(s) : s[i] = "$" /\ \A j \in (i + 1)..Len(s) : s[j] # "$"

\* The call missed the table: the key, or the language for it, is absent.
Missed(r) ==
    \/ r.other \notin DOMAIN replies
    \/ r.lang \notin DOMAIN replies[r.other]

\* Left-to-right, non-overlapping "$$" tokens of a phrase.
RECURSIVE CountTokens(_)
CountTokens(s) ==
    IF Len(s) < 2 THEN 0
    ELSE IF s[1] = "$" /\ s[2] = "$"
         THEN 1 + CountTokens(SubSeq(s, 3, Len(s)))
         ELSE CountTokens(Tail(s))

\* The phrase with its k-th token replaced by the k-th segment, while both
\* last; what is left of the phrase stays as it is.
RECURSIVE TokenSubst(_, _)
TokenSubst(s, segs) ==
    IF s = <<>> THEN <<>>
    ELSE IF segs # <<>> /\ Len(s) >= 2 /\ s[1] = "$" /\ s[2] = "$"
         THEN Head(segs) \o TokenSubst(SubSeq(s, 3, Len(s)), Tail(segs))
         ELSE <<s[1]>> \o TokenSubst(Tail(s), segs)

\* C2 as stated: on a lookup miss (the text, or the language code for it, is
\* not in the loaded table) _get_reply returns the original text unchanged.
C2_MissReturnsOriginalText ==
    (reply.called /\ (reply.text \notin DOMAIN replies
                      \/ reply.lang \notin DOMAIN replies[reply.text]))
        => reply.out = reply.text

\* C2 as amended: on a lookup miss (the marker-stripped key of the text, or
\* the language code for it, is not in the loaded table) _get_reply returns
\* the text unchanged when it has no '$'; the text without its '$' characters
\* when it has an even number of them; and otherwise the part before the last
\* '$' without its '$' characters, followed by one '$'.
C2_MissStripsMarkers ==
    (reply.called /\ Missed(reply)) =>
        /\ Marks(reply.text) = 0 => reply.out = reply.text
        /\ Marks(reply.text) % 2 = 0 =>
               reply.out = SelectSeq(reply.text, NotMark)
        /\ Marks(reply.text) % 2 = 1 =>
               reply.out =
                   SelectSeq(SubSeq(reply.text, 1, LastMark(reply.text) - 1),
                             NotMark) \o <<"$">>

\* A miss against a table that has entries, on a text with a closed
\* placeholder, after which the text is no longer the original one.
C2_Witness ==
    /\ reply.called
    /\ replies # EmptyTable
    /\ Missed(reply)
    /\ Len(reply.results) >= 1
    /\ reply.out # reply.text

\* C3: the result of _get_reply is the looked-up phrase with its k-th
\* left-to-right "$$" token replaced by the k-th extracted segment, for k up
\* to the smaller of the two counts; segments beyond the tokens are dropped
\* and tokens beyond the segments stay literally in the result.
C3_OrderedReinsertion ==
    reply.called =>
        /\ reply.out = TokenSubst(reply.result, reply.results)
        /\ CountTokens(reply.result) > Len(reply.results) =>
               CountTokens(reply.out) >=
                   CountTokens(reply.result) - Len(reply.results)

\* A translated phrase with one token, and two different segments for it.
C3_Witness ==
    /\ reply.called
    /\ ~Missed(reply)
    /\ Len(reply.results) = 2
    /\ reply.results[1] # reply.results[2]
    /\ CountTokens(reply.result) = 1
    /\ reply.out # reply.result

(***************************************************************************)
(* Python values of an intercepted call.  Values are tagged with their     *)
(* type, which is what isinstance and truthiness look at.                  *)
(***************************************************************************)
PyNone == [py |-> "None"]
Str(s) == [py |-> "str", s |-> s]
Empty == [py |-> "Embed.Empty"]
NoFooter == [py |-> "EmbedProxy"]
Footer(t) == [py |-> "EmbedProxy", text |-> t]
Message(id) == [py |-> "Message", author |-> [id |-> id]]
Bool(b) == [py |-> "bool", b |-> b]
Opaque == [py |-> "object"]

Truthy(v) ==
    CASE v.py = "None" -> FALSE
      [] v.py = "str" -> Len(v.s) > 0
      [] v.py = "bool" -> v.b
      [] OTHER -> TRUE

\* Language.get
CacheGet(c, ugid) == IF ugid \in DOMAIN c THEN c[ugid] ELSE "ja"

\* Language._replace_embed
ReplaceIfSet(table, v, lang) ==
    IF v = Empty THEN v ELSE Str(_get_reply(table, v.s, lang))

_replace_embed(table, embed, lang) ==
    [py          |-> "Embed",
     title       |-> ReplaceIfSet(table, embed.title, lang),
     description |-> ReplaceIfSet(table, embed.description, lang),
     fields      |-> [i \in DOMAIN embed.fields |->
                         [name  |-> Str(_get_reply(table, embed.fields[i].name.s, lang)),
                          value |-> Str(_get_reply(table, embed.fields[i].value.s, lang))]],
     footer      |-> IF embed.footer # NoFooter
                     THEN Footer(ReplaceIfSet(table, embed.footer.text, lang))
                     ELSE embed.footer]

\* Language.get_text, called with a language code as its target.
get_text(table, v, lang) ==
    CASE v.py = "str" -> Str(_get_reply(table, v.s, lang))
      [] v.py = "Embed" -> _replace_embed(table, v, lang)
      [] OTHER -> PyNone

\* kwargs.get(key, default)
KwGet(kwargs, key, default) ==
    IF key \in DOMAIN kwargs THEN kwargs[key] ELSE default

\* The language of _new_send when replace_language=False is not looked at.
SendLangNoOptOut(c, kwargs) ==
    IF KwGet(kwargs, "reference", PyNone) # PyNone
    THEN CacheGet(c, kwargs["reference"].author.id)
    ELSE "ja"

\* Language._new_send, the language it settles on.
SendLang(c, kwargs) ==
    LET lang == IF KwGet(kwargs, "reference", PyNone) # PyNone
                THEN CacheGet(c, kwargs["reference"].author.id)
                ELSE "ja"
    IN  IF ~Truthy(KwGet(kwargs, "replace_language", Bool(TRUE)))
        THEN "ja"
        ELSE lang

\* Language._new_send, the (args, kwargs) it returns.
_new_send(c, table, args, kwargs) ==
    LET lang == SendLang(c, kwargs)
        kw0  == [k \in DOMAIN kwargs \ {"replace_language"} |-> kwargs[k]]
        kw1  == IF Truthy(KwGet(kw0, "content", Bool(FALSE)))
                THEN [kw0 EXCEPT !["content"] = get_text(table, @, lang)]
                ELSE kw0
        args1 == IF args # <<>>
                 THEN <<get_text(table, args[1], lang)>>
                 ELSE args
        kw2  == IF Truthy(KwGet(kw1, "embed", Bool(FALSE)))
                THEN [kw1 EXCEPT !["embed"] = get_text(table, @, lang)]
                ELSE kw1
        kw3  == IF "embeds" \in DOMAIN kw2
                THEN [kw2 EXCEPT !["embeds"] =
                         [i \in DOMAIN @ |-> get_text(table, @[i], lang)]]
                ELSE kw2
    IN  [called    |-> TRUE,
         args      |-> args,
         kwargs    |-> kwargs,
         lang      |-> lang,
         outArgs   |-> args1,
         outKwargs |-> kw3]

(***************************************************************************)
(* The persisted preference table and the cache refresh                    *)
(***************************************************************************)
Subjects == {42, 7}

Row(id, language) == [id |-> id, language |-> language]

\* Language.update_cache: every row of the scan overwrites the entry of
\* its subject.
RECURSIVE update_cache(_, _)
update_cache(c, rows) ==
    IF rows = <<>> THEN c
    ELSE update_cache(
             [k \in DOMAIN c \cup {Head(rows).id} |->
                 IF k = Head(rows).id THEN Head(rows).language ELSE c[k]],
             Tail(rows))

\* What the table can hold when the process starts: it outlives the process,
\* and holds the preferences set in earlier runs, one row per subject.
PersistedTables ==
    LET n == Cardinality(Subjects)
        seqs == UNION {[1..k -> {Row(i, l) : i \in Subjects, l \in LANGUAGES}] :
                          k \in 0..n}
    IN  {t \in seqs : \A i, j \in DOMAIN t : t[i].id = t[j].id => i = j}

(***************************************************************************)
(* The replies file and the calls that reach the send interceptor          *)
(***************************************************************************)
Ok == <<"O", "k">>
OkEn == <<"O", "K", "!">>
Hi == <<"H", "i">>

OkTable == Ok :> ("en" :> OkEn)

ReplyFiles == {OkTable}

SendTexts == {Str(Ok), Str(Hi)}

OkEmbed ==
    [py          |-> "Embed",
     title       |-> Str(Ok),
     description |-> Empty,
     fields      |-> <<[name |-> Str(Hi), value |-> Str(Ok)]>>,
     footer      |-> Footer(Str(Ok))]

PosArgs ==
    {<<>>} \cup
    UNION {{<<t>> \o [i \in 1..k |-> Opaque] : t \in SendTexts} :
              k \in 0..(MaxArgs - 1)}

Opt(key, vals) == {EmptyTable} \cup {key :> v : v \in vals}

KwArgs ==
    {a @@ b @@ c @@ d @@ e @@ f @@ g :
        a \in Opt("content", {Str(Ok)}),
        b \in Opt("reference", {PyNone} \cup {Message(i) : i \in Subjects}),
        c \in Opt("replace_language", {Bool(TRUE), Bool(FALSE)}),
        d \in Opt("target", Subjects),
        e \in Opt("embed", {OkEmbed}),
        f \in Opt("embeds", {<<OkEmbed>>}),
        g \in Opt("tts", {Bool(TRUE)})}

\* The state after bot.add_cog(Language(bot)).
InitLang ==
    /\ cache = EmptyTable
    /\ replies = EmptyTable
    /\ ready = FALSE
    /\ db \in PersistedTables
    /\ pc = [p \in Procs |-> "idle"]
    /\ cmd = [p \in Procs |-> NoCall]
    /\ ncmds = 0
    /\ sent = NoCall
    /\ text = <<>>
    /\ reply = NoCall
    /\ ViewIdle

\* Language.on_ready: the cache is filled from the table and the replies
\* file is read.
OnReady ==
    /\ ~ready
    /\ ready' = TRUE
    /\ cache' = update_cache(cache, db)
    /\ \E file \in ReplyFiles : replies' = file
    /\ UNCHANGED <<db, pc, cmd, ncmds, sent, text, reply>>
    /\ UNCHANGED viewVars

\* A send or reply passes through the on_send event of the Language cog.
\* _new_send keeps nothing from one call to the next, so a behaviour follows
\* one call; the calls differ in their arguments and in the cache and replies
\* they meet.
NewSend(args, kwargs) ==
    /\ ready
    /\ ~sent.called
    /\ sent' = _new_send(cache, replies, args, kwargs)
    /\ UNCHANGED <<cache, replies, ready, db, pc, cmd, ncmds, text, reply>>
    /\ UNCHANGED viewVars

NextSend ==
    \/ OnReady
    \/ \E args \in PosArgs, kwargs \in KwArgs : NewSend(args, kwargs)

SpecSend == InitLang /\ [][NextSend]_vars

(***************************************************************************)
(* Send interceptor: claims C1, C9 and C10                                 *)
(***************************************************************************)
HasReference(kwargs) ==
    "reference" \in DOMAIN kwargs /\ kwargs["reference"] # PyNone

OptedOut(kwargs) ==
    "replace_language" \in DOMAIN kwargs
        /\ kwargs["replace_language"] = Bool(FALSE)

C9_TargetSelectsLanguage ==
    (/\ sent.called
     /\ "target" \in DOMAIN sent.kwargs
     /\ ~HasReference(sent.kwargs)
     /\ ~OptedOut(sent.kwargs)
     /\ sent.args # <<>>)
        => sent.outArgs[1] =
               Str(_get_reply(replies, sent.args[1].s,
                              CacheGet(cache, sent.kwargs["target"])))

\* C10: the returned (args, kwargs) differ from the call's only in the first
\* positional argument, in content, embed and embeds, and in the removal of
\* replace_language.
C10_Frame ==
    sent.called =>
        /\ Len(sent.outArgs) = Len(sent.args)
        /\ \A i \in 2..Len(sent.args) : sent.outArgs[i] = sent.args[i]
        /\ DOMAIN sent.outKwargs = DOMAIN sent.kwargs \ {"replace_language"}
        /\ \A k \in DOMAIN sent.outKwargs \ {"content", "embed", "embeds"} :
               sent.outKwargs[k] = sent.kwargs[k]

(***************************************************************************)
(* The `language` command.  Every await of the handler is a point where    *)
(* another invocation can run; the steps below are the stretches between   *)
(* the awaits.                                                             *)
(***************************************************************************)
\* cursor.exists("language", {"id": id})
DbExists(rows, id) == \E i \in DOMAIN rows : rows[i].id = id

\* cursor.insert_data("language", {"id": id, "language": language})
DbInsert(rows, id, language) == Append(rows, Row(id, language))

\* cursor.update_data("language", {"language": language}, {"id": id})
DbUpdate(rows, id, language) ==
    [i \in DOMAIN rows |->
        IF rows[i].id = id THEN Row(id, language) ELSE rows[i]]

CommandCodes == LANGUAGES \cup {"fr"}

\* language(ctx, language) up to `await ctx.trigger_typing()`.
Language(p, author, language) ==
    /\ ready
    /\ pc[p] = "idle"
    /\ ncmds < MaxCmds
    /\ ncmds' = ncmds + 1
    /\ IF language \notin LANGUAGES
       THEN /\ cmd' = [cmd EXCEPT ![p] =
                          [called |-> TRUE, author |-> author,
                           language |-> language, found |-> FALSE,
                           error |-> "ValueError"]]
            /\ pc' = pc
       ELSE /\ cmd' = [cmd EXCEPT ![p] =
                          [called |-> TRUE, author |-> author,
                           language |-> language, found |-> FALSE,
                           error |-> "None"]]
            /\ pc' = [pc EXCEPT ![p] = "exists"]
    /\ UNCHANGED <<cache, replies, ready, db, sent, text, reply>>
    /\ UNCHANGED viewVars

\* await cursor.exists("language", targets)
Exists(p) ==
    /\ pc[p] = "exists"
    /\ cmd' = [cmd EXCEPT ![p].found = DbExists(db, cmd[p].author)]
    /\ pc' = [pc EXCEPT ![p] = "write"]
    /\ UNCHANGED <<cache, replies, ready, db, ncmds, sent, text, reply>>
    /\ UNCHANGED viewVars

\* await cursor.update_data(...) or await cursor.insert_data(...)
Write(p) ==
    /\ pc[p] = "write"
    /\ db' = IF cmd[p].found
             THEN DbUpdate(db, cmd[p].author, cmd[p].language)
             ELSE DbInsert(db, cmd[p].author, cmd[p].language)
    /\ pc' = [pc EXCEPT ![p] = "cache"]
    /\ UNCHANGED <<cache, replies, ready, cmd, ncmds, sent, text, reply>>
    /\ UNCHANGED viewVars

\* await self.update_cache(cursor): the rows of one scan of the table are
\* written to the cache in storage order.
UpdateCache(p) ==
    /\ pc[p] = "cache"
    /\ cache' = update_cache(cache, db)
    /\ pc' = [pc EXCEPT ![p] = "reply"]
    /\ UNCHANGED <<replies, ready, db, cmd, ncmds, sent, text, reply>>
    /\ UNCHANGED viewVars

\* await ctx.reply(embed=embed)
Reply(p) ==
    /\ pc[p] = "reply"
    /\ pc' = [pc EXCEPT ![p] = "idle"]
    /\ UNCHANGED <<cache, replies, ready, db, cmd, ncmds, sent, text, reply>>
    /\ UNCHANGED viewVars

NextLang ==
    \/ OnReady
    \/ \E p \in Procs, author \in Subjects, language \in CommandCodes :
           Language(p, author, language)
    \/ \E p \in Procs : Exists(p)
    \/ \E p \in Procs : Write(p)
    \/ \E p \in Procs : UpdateCache(p)
    \/ \E p \in Procs : Reply(p)

SpecLang == InitLang /\ [][NextLang]_vars

(***************************************************************************)
(* Preference table: claim C4                                              *)
(***************************************************************************)
\* C4: in every state reachable by interleaved `language` invocations the
\* persisted table holds at most one row per subject id.
C4_OneRowPerSubject ==
    \A i, j \in DOMAIN db : db[i].id = db[j].id => i = j

(***************************************************************************)
(* Componesy: the View object and the view builder                         *)
(***************************************************************************)
ViewNames == {"TestView", "Panel"}

\* A callback is a bound method of a cog or a module-level function.
Method(name) == [name |-> name, bound |-> TRUE]
Function(name) == [name |-> name, bound |-> FALSE]

Callbacks ==
    {Method("test_interaction"), Method("test_count"), Function("left")}

CallbackNames == {cb.name : cb \in Callbacks} \cup {"missing"}

\* componesy.item: the discord.ui decorator and the callback.
item(name, callback) == <<[ui |-> name], callback>>

\* componesy.make_view
make_view(view_name, items) == [view_name |-> view_name, items |-> items]

\* View.__init__
NewViewObject(view_name) ==
    [called |-> TRUE, view_name |-> view_name, items |-> <<>>,
     args |-> <<>>, kwargs |-> EmptyTable]

\* View._make_items
_make_items(v) ==
    [view_name |-> v.view_name, items |-> v.items,
     args |-> v.args, kwargs |-> v.kwargs]

\* View.remove_item: the value of i after the loop, counted from 1
\* (0 stands for the -1 of an empty list).
RemoveIndex(items, callback_name) ==
    LET hits == {i \in DOMAIN items : items[i][2].name = callback_name}
    IN  IF hits # {}
        THEN CHOOSE i \in hits : \A j \in hits : i <= j
        ELSE Len(items)

remove_item(items, callback_name) ==
    LET i == RemoveIndex(items, callback_name)
    IN  IF i # 0
        THEN [error |-> "None",
              items |-> SubSeq(items, 1, i - 1) \o SubSeq(items, i + 1, Len(items))]
        ELSE [error |-> "KeyError", items |-> items]

\* The check before the build, when it lets every call through.
NeedsBuildAlways(view_name, classes) == TRUE

\* if view_name not in self.views
NeedsBuild(view_name, classes) == view_name \notin DOMAIN classes

\* The loop over items["items"]: reading coro.__self__ of a module-level
\* function raises AttributeError; a bound method is wrapped, and the
\* wrapper holds its own coro in a default argument.
RECURSIVE BuildLoop(_, _)
BuildLoop(items, functions) ==
    IF items = <<>> THEN [error |-> "None", functions |-> functions]
    ELSE
        LET uiitem == Head(items)[1]
            coro   == Head(items)[2]
        IN  IF ~coro.bound
            THEN [error |-> "AttributeError", functions |-> functions]
            ELSE BuildLoop(Tail(items),
                           (coro.name :> [item |-> uiitem, invokes |-> coro])
                               @@ functions)

\* Componesy._new_send for a call whose view argument is `items`, a dict or
\* the dict of a View object.
BuildAndInstantiate(classes, nc, ni, items) ==
    IF "args" \notin DOMAIN items
    THEN [error |-> "KeyError", building |-> FALSE, outView |-> PyNone,
          views |-> classes, nclasses |-> nc, ninst |-> ni]
    ELSE
        LET view_name == items["view_name"]
            building  == NeedsBuild(view_name, classes)
            b         == BuildLoop(items["items"], EmptyTable)
            classes1  == IF building
                         THEN (view_name :>
                                  [name |-> view_name, id |-> nc + 1,
                                   functions |-> b.functions]) @@ classes
                         ELSE classes
        IN  IF building /\ b.error # "None"
            THEN [error |-> b.error, building |-> TRUE, outView |-> PyNone,
                  views |-> classes, nclasses |-> nc, ninst |-> ni]
            ELSE [error |-> "None", building |-> building,
                  outView |-> [py |-> "instance", cls |-> classes1[view_name],
                               id |-> ni + 1,
                               args |-> items["args"],
                               kwargs |-> items["kwargs"]],
                  views |-> classes1,
                  nclasses |-> IF building THEN nc + 1 ELSE nc,
                  ninst |-> ni + 1]

\* The state after bot.add_cog(Componesy(bot)).
InitView ==
    /\ LangIdle
    /\ ready = FALSE
    /\ replies = EmptyTable
    /\ text = <<>>
    /\ reply = NoCall
    /\ ViewIdle

\* view = componesy.View(view_name)
NewView(view_name) ==
    /\ view' = NewViewObject(view_name)
    /\ UNCHANGED <<views, nclasses, ninst, vsent, rm>>
    /\ UNCHANGED langVars

\* view.add_item("button", callback, ...)
AddItem(callback) ==
    /\ view.called
    /\ Len(view.items) < MaxItems
    /\ view' = [view EXCEPT !.items = Append(@, item("button", callback))]
    /\ UNCHANGED <<views, nclasses, ninst, vsent, rm>>
    /\ UNCHANGED langVars

\* view.remove_item(callback_name)
RemoveItem(callback_name) ==
    /\ view.called
    /\ LET r == remove_item(view.items, callback_name)
       IN  /\ rm' = [called |-> TRUE, name |-> callback_name,
                     before |-> view.items, after |-> r.items,
                     error |-> r.error]
           /\ view' = [view EXCEPT !.items = r.items]
    /\ UNCHANGED <<views, nclasses, ninst, vsent>>
    /\ UNCHANGED langVars

\* A send or edit passes through Componesy._new_send with view=view
\* ("View"), with view=make_view(...) of the same name and items ("dict"),
\* or with no view descriptor ("other").
ViewSend(form) ==
    /\ ninst < MaxSends
    /\ IF form = "other"
       THEN /\ vsent' = [called |-> TRUE, form |-> form, view_name |-> "",
                         items |-> <<>>, building |-> FALSE,
                         error |-> "None", outView |-> PyNone]
            /\ UNCHANGED <<views, nclasses, ninst>>
       ELSE /\ view.called
            /\ LET items == IF form = "View"
                            THEN _make_items(view)
                            ELSE make_view(view.view_name, view.items)
                   r == BuildAndInstantiate(views, nclasses, ninst, items)
               IN  /\ vsent' = [called |-> TRUE, form |-> form,
                                view_name |-> view.view_name,
                                items |-> view.items,
                                building |-> r.building,
                                error |-> r.error, outView |-> r.outView]
                   /\ views' = r.views
                   /\ nclasses' = r.nclasses
                   /\ ninst' = r.ninst
    /\ UNCHANGED <<view, rm>>
    /\ UNCHANGED langVars

\* Commands that build View objects and send them.
NextView ==
    \/ \E view_name \in ViewNames : NewView(view_name)
    \/ \E callback \in Callbacks : AddItem(callback)
    \/ \E form \in {"View", "dict", "other"} : ViewSend(form)

SpecView == InitView /\ [][NextView]_vars

\* Commands that edit the items of View objects.
NextItems ==
    \/ \E view_name \in ViewNames : NewView(view_name)
    \/ \E callback \in Callbacks : AddItem(callback)
    \/ \E callback_name \in CallbackNames : RemoveItem(callback_name)

SpecItems == InitView /\ [][NextItems]_vars

(***************************************************************************)
(* View builder: claims C5, C6, C7 and C8                                  *)
(***************************************************************************)
IsDescriptorSend(c) == c.called /\ c.form \in {"View", "dict"}

\* C5: when the builder builds a class for a descriptor, the build succeeds
\* for bound methods and free functions alike, and the component made for
\* each item invokes that item's own callback.
C5_EachItemOwnCallback ==
    (vsent.called /\ vsent.building) =>
        /\ vsent.error = "None"
        /\ \A i \in DOMAIN vsent.items :
               LET coro == vsent.items[i][2]
                   functions == views[vsent.view_name].functions
               IN  /\ coro.name \in DOMAIN functions
                   /\ functions[coro.name].invokes = coro

\* C6: a send whose view is a descriptor, a View object or the dict of
\* make_view, returns with view replaced by a fresh instance of the class
\* cached under the descriptor's view_name, and does not raise.
C6_DescriptorReplaced ==
    IsDescriptorSend(vsent) =>
        /\ vsent.error = "None"
        /\ vsent.outView # PyNone
        /\ vsent.view_name \in DOMAIN views
        /\ vsent.outView.cls = views[vsent.view_name]
        /\ vsent.outView.id = ninst

\* C7: a class is constructed at most once per view_name and, once cached,
\* never replaced: a later descriptor of the same name gets an instance of
\* the class cached first, whatever its items, and every call gets a new
\* instance.
C7_ClassCachedOnce ==
    /\ [](nclasses = Cardinality(DOMAIN views))
    /\ [][/\ \A n \in DOMAIN views :
                 n \in DOMAIN views' /\ views'[n] = views[n]
          /\ (IsDescriptorSend(vsent') /\ vsent'.error = "None"
                 /\ ninst' # ninst) =>
                 /\ vsent'.outView.id = ninst + 1
                 /\ ninst' = ninst + 1
                 /\ vsent'.view_name \in DOMAIN views =>
                        vsent'.outView.cls = views[vsent'.view_name]]_vars

\* A second successful send under a cached name whose items are not the
\* ones the class was built from.
C7_Witness ==
    /\ IsDescriptorSend(vsent)
    /\ vsent.error = "None"
    /\ ~vsent.building
    /\ ninst >= 2
    /\ nclasses = 1
    /\ DOMAIN vsent.outView.cls.functions
           # {vsent.items[i][2].name : i \in DOMAIN vsent.items}

\* C8: remove_item with a name that no callback of the items has raises
\* KeyError and leaves the items as they were; with a matching name it
\* removes exactly the first item whose callback has that name.
C8_RemoveItem ==
    rm.called =>
        LET hits == {i \in DOMAIN rm.before : rm.before[i][2].name = rm.name}
        IN  IF hits = {}
            THEN rm.error = "KeyError" /\ rm.after = rm.before
            ELSE LET i == CHOOSE k \in hits : \A j \in hits : k <= j
                 IN  /\ rm.error = "None"
                     /\ rm.after = SubSeq(rm.before, 1, i - 1)
                                       \o SubSeq(rm.before, i + 1, Len(rm.before))

====
